---- MODULE Spec2Model ----
(***************************************************************************)
(* A model of src/types/BaseType.cpp: the Gift-ed base type capability set *)
(* (GiftedBaseType), its one concrete variant (GiftedIntegerType) and the  *)
(* driver main.                                                            *)
(*                                                                         *)
(* A std::uint64_t is kept as its 8 bytes in host (little-endian) order,   *)
(* byte 1 least significant, so that the full 64-bit width is modelled:    *)
(* comparison and addition are defined on the bytes.                       *)
(***************************************************************************)
EXTENDS Integers, Sequences, FiniteSets, TLC

VARIABLES
  heap,                \* live instances: id -> [type, value]
  result,              \* the caller's "bool result" passed by reference
  call,                \* the last member call as the caller sees it
  arith,               \* number of AddToLeft / Increment calls made so far
  vpc,                 \* position inside VectorizedEqual
  self,                \* "this" of the VectorizedEqual call
  elementLength,       \* VectorizedEqual parameters
  vectorDataElements,
  vectorLength,
  rawLiteralData,
  vecPad,              \* memory found past the end of the vector buffer
  litPad,              \* memory found past the end of the literal buffer
  resultArray,         \* the caller's "bool *result" array, slot i at i + 1
  written,             \* indices of resultArray assigned by the call
  i,                   \* loop counter of VectorizedEqual
  callerTypeInstance,  \* _callerTypeInstance
  literalInstance,     \* _literalInstance
  clones,              \* number of Clone calls made by the current call
  pc,                  \* position inside main
  onDisk,              \* main's _onDisk
  onDiskA,             \* main's _onDiskA, element i at i + 1
  onDiskB,             \* main's _onDiskB, element i at i + 1
  printed              \* what main wrote to std::cout

vecVars == <<vpc, self, elementLength, vectorDataElements, vectorLength,
             rawLiteralData, vecPad, litPad, resultArray, written, i,
             callerTypeInstance, literalInstance, clones>>
mainVars == <<pc, onDisk, onDiskA, onDiskB, printed>>
vars == <<heap, result, call, arith, vpc, self, elementLength,
          vectorDataElements, vectorLength, rawLiteralData, vecPad, litPad,
          resultArray, written, i, callerTypeInstance, literalInstance,
          clones, pc, onDisk, onDiskA, onDiskB, printed>>

----------------------------------------------------------------------------
(* Bounds of the model.                                                    *)

MaxInst == 2        \* instances alive at once in the member-call model
MaxArith == 1       \* AddToLeft / Increment calls in one behaviour
MaxN == 2           \* largest vectorLength tried in the vectorized model

(* Values found on "disk" as signed 64-bit quantities.                     *)
OnDiskVals == {-1, 13, 26}
(* Signed values tried where the claim is about the loss of the sign.      *)
SignedVals == {-2147483647, -256, -2, -1, 0, 1, 255, 256, 2147483647}
(* Element values of the vectors tried in the vectorized model.            *)
VecVals == {-1, 0, 13}
(* Buffer lengths handed to UnMarshall in the member-call model.           *)
Lengths == {8, 16}
(* Element widths tried in the vectorized model.                           *)
Widths == {4, 8, 16}
(* Content of a byte read past the end of a buffer (undefined behaviour:   *)
(* whatever the adjacent memory holds).                                    *)
PadBytes == {0, 255}

----------------------------------------------------------------------------
(* GiftedTypeId                                                            *)

GiftedUnknownTypeId == -1
GiftedIntTypeId == 0

----------------------------------------------------------------------------
(* Bytes and 64-bit unsigned arithmetic.                                   *)

RECURSIVE ByteOf(_, _)
(* Byte k (0 = least significant) of the two's complement form of s.       *)
ByteOf(s, k) == IF k = 0 THEN s % 256 ELSE ByteOf(s \div 256, k - 1)

(* reinterpret_cast<char*>(&x) for a signed integer x of len bytes.        *)
StorageBytes(s, len) == [k \in 1..len |-> ByteOf(s, k - 1)]

(* *reinterpret_cast<const std::uint64_t*>(payload): the 8 bytes starting  *)
(* at offset off of buf; a byte past the end of buf is whatever is there.  *)
Load64(buf, off, pad) ==
  [k \in 1..8 |-> IF off + k <= Len(buf) THEN buf[off + k] ELSE pad]

Zero == [k \in 1..8 |-> 0]
One == [k \in 1..8 |-> IF k = 1 THEN 1 ELSE 0]

RECURSIVE LessFrom(_, _, _)
LessFrom(a, b, k) ==
  IF k = 0 THEN FALSE
  ELSE IF a[k] # b[k] THEN a[k] < b[k]
  ELSE LessFrom(a, b, k - 1)

(* Signed comparison of the same bits (what an int64 compare would do).    *)
SignedLess64(a, b) ==
  IF (a[8] >= 128) # (b[8] >= 128) THEN a[8] >= 128 ELSE LessFrom(a, b, 8)

(* operator< on std::uint64_t                                              *)
Less64(a, b) == LessFrom(a, b, 8)

RECURSIVE CarryInto(_, _, _)
CarryInto(a, b, k) ==
  IF k = 1 THEN 0 ELSE (a[k - 1] + b[k - 1] + CarryInto(a, b, k - 1)) \div 256

(* Addition that sticks at the largest value instead of wrapping.          *)
SaturatingAdd64(a, b) ==
  IF (a[8] + b[8] + CarryInto(a, b, 8)) >= 256
  THEN [k \in 1..8 |-> 255]
  ELSE [k \in 1..8 |-> (a[k] + b[k] + CarryInto(a, b, k)) % 256]

(* operator+= on std::uint64_t: addition modulo 2^64                       *)
Add64(a, b) == [k \in 1..8 |-> (a[k] + b[k] + CarryInto(a, b, k)) % 256]

----------------------------------------------------------------------------
(* GiftedIntegerType: an instance is a record [type, value]; a member     *)
(* takes the instance it is called on first.                               *)

myType(x) == x.type

getLength == 8

(* The object made by the constructor: GiftedIntegerType():_value(0).      *)
GiftedIntegerType == [type |-> GiftedIntTypeId, value |-> Zero]

(* A Clone that copies the value of its source.                            *)
CloneCopiesValue(x) == [type |-> GiftedIntTypeId, value |-> x.value]

(* The object made by x->Clone(): return new GiftedIntegerType.            *)
Clone(x) == GiftedIntegerType

(* The object made by a variant that does not override myType().           *)
OtherVariant == [type |-> GiftedUnknownTypeId]

(* The new _value after UnMarshall(payload, length), payload = buf + off.  *)
UnMarshall(buf, off, length, pad) == Load64(buf, off, pad)

(* Each comparison returns the content of "result" after the call, res     *)
(* being its content before.                                               *)
EqualClearsOnMismatch(l, r, res) ==
  IF myType(r) = GiftedIntTypeId THEN l.value = r.value ELSE FALSE

Equal(l, r, res) ==
  IF myType(r) = GiftedIntTypeId THEN l.value = r.value ELSE res

LessThanSigned(l, r, res) ==
  IF myType(r) = GiftedIntTypeId THEN SignedLess64(l.value, r.value) ELSE res

LessThan(l, r, res) ==
  IF myType(r) = GiftedIntTypeId THEN Less64(l.value, r.value) ELSE res

NotEqual(l, r, res) == ~Equal(l, r, res)

LessThanOnly(l, r, res) == LessThan(l, r, res)

LessThanOrEqual(l, r, res) ==
  LET lt == LessThan(l, r, res)
  IN  IF ~lt THEN Equal(l, r, lt) ELSE lt

GreaterThan(l, r, res) == ~LessThanOrEqual(l, r, res)

GreaterThanOrEqual(l, r, res) == ~LessThan(l, r, res)

(* The new _value of l after l->AddToLeft(r).                              *)
AddToLeftSaturates(l, r) ==
  IF myType(r) = GiftedIntTypeId THEN SaturatingAdd64(l.value, r.value)
  ELSE l.value

AddToLeft(l, r) ==
  IF myType(r) = GiftedIntTypeId THEN Add64(l.value, r.value) ELSE l.value

(* The new _value of x after x.Increment().                                *)
Increment(x) == Add64(x.value, One)

----------------------------------------------------------------------------
(* The heap.                                                               *)

EmptyHeap == [x \in {} |-> 0]

Live == DOMAIN heap

IntInstances == {x \in Live : myType(heap[x]) = GiftedIntTypeId}

(* operator new: the address of the new object is one not in use.          *)
NewId(h) == CHOOSE x \in 1..(Cardinality(DOMAIN h) + 1) : x \notin DOMAIN h

Allocate(h, id, obj) ==
  [x \in DOMAIN h \cup {id} |-> IF x = id THEN obj ELSE h[x]]

Release(h, ids) == [x \in DOMAIN h \ ids |-> h[x]]

SetValue(h, id, v) == [h EXCEPT ![id] = [type |-> h[id].type, value |-> v]]

NoCall == [op |-> "none", this |-> 0, right |-> 0, payload |-> << >>,
           length |-> 0, prior |-> FALSE, before |-> EmptyHeap, ret |-> 0,
           raised |-> "None"]

(* What the caller knows of a call: every member returns void and none     *)
(* throws, so no failure is ever raised.                                   *)
Called(op, this, right, length, ret) ==
  [op |-> op, this |-> this, right |-> right, payload |-> << >>,
   length |-> length, prior |-> result, before |-> heap, ret |-> ret,
   raised |-> "None"]

----------------------------------------------------------------------------
(* Member calls made by a client of the types, one action per call.        *)

IdleVec ==
  /\ vpc = "idle" /\ self = 0 /\ elementLength = 0
  /\ vectorDataElements = << >> /\ vectorLength = 0 /\ rawLiteralData = << >>
  /\ vecPad = 0 /\ litPad = 0 /\ resultArray = << >> /\ written = {}
  /\ i = 0 /\ callerTypeInstance = 0 /\ literalInstance = 0 /\ clones = 0

IdleMain ==
  /\ pc = "none" /\ onDisk = 0 /\ onDiskA = << >> /\ onDiskB = << >>
  /\ printed = << >>

(* "bool result;" is not initialised: it holds either value.               *)
Init ==
  /\ heap = EmptyHeap
  /\ result \in BOOLEAN
  /\ call = NoCall
  /\ arith = 0
  /\ IdleVec
  /\ IdleMain

(* No call is being looked at: the caller is between two statements.      *)
Ready == call.op = "none"

(* The caller has looked at the outcome of its call and goes on.           *)
Return ==
  /\ ~Ready
  /\ call.op # "VectorizedEqual"
  /\ call' = NoCall
  /\ UNCHANGED <<heap, result, arith, vecVars, mainVars>>

(* new GiftedIntegerType                                                   *)
CallNew ==
  /\ Ready
  /\ Cardinality(Live) < MaxInst
  /\ heap' = Allocate(heap, NewId(heap), GiftedIntegerType)
  /\ call' = Called("new", 0, 0, 0, NewId(heap))
  /\ UNCHANGED <<result, arith, vecVars, mainVars>>

(* new of a variant that keeps GiftedBaseType::myType()                    *)
CallNewOther ==
  /\ Ready
  /\ Cardinality(Live) < MaxInst
  /\ heap' = Allocate(heap, NewId(heap), OtherVariant)
  /\ call' = Called("newOther", 0, 0, 0, NewId(heap))
  /\ UNCHANGED <<result, arith, vecVars, mainVars>>

(* delete x                                                                *)
CallDelete(x) ==
  /\ Ready
  /\ heap' = Release(heap, {x})
  /\ call' = Called("delete", x, 0, 0, 0)
  /\ UNCHANGED <<result, arith, vecVars, mainVars>>

CallClone(x) ==
  /\ Ready
  /\ Cardinality(Live) < MaxInst
  /\ heap' = Allocate(heap, NewId(heap), Clone(heap[x]))
  /\ call' = Called("Clone", x, 0, 0, NewId(heap))
  /\ UNCHANGED <<result, arith, vecVars, mainVars>>

(* x->UnMarshall(p, len), p pointing to a signed integer s of len bytes.   *)
CallUnMarshall(x, s, len, pad) ==
  /\ Ready
  /\ heap' = SetValue(heap, x, UnMarshall(StorageBytes(s, len), 0, len, pad))
  /\ call' = [Called("UnMarshall", x, 0, len, 0)
                EXCEPT !.payload = StorageBytes(s, len)]
  /\ UNCHANGED <<result, arith, vecVars, mainVars>>

Compare(op, l, r, res) ==
  /\ Ready
  /\ result' = res
  /\ call' = Called(op, l, r, 0, 0)
  /\ UNCHANGED <<heap, arith, vecVars, mainVars>>

CallEqual(l, r) == Compare("Equal", l, r, Equal(heap[l], heap[r], result))

CallLessThan(l, r) == Compare("LessThan", l, r, LessThan(heap[l], heap[r], result))

CallNotEqual(l, r) == Compare("NotEqual", l, r, NotEqual(heap[l], heap[r], result))

CallLessThanOrEqual(l, r) ==
  Compare("LessThanOrEqual", l, r, LessThanOrEqual(heap[l], heap[r], result))

CallGreaterThan(l, r) ==
  Compare("GreaterThan", l, r, GreaterThan(heap[l], heap[r], result))

CallGreaterThanOrEqual(l, r) ==
  Compare("GreaterThanOrEqual", l, r, GreaterThanOrEqual(heap[l], heap[r], result))

CallAddToLeft(l, r) ==
  /\ Ready
  /\ arith < MaxArith
  /\ heap' = SetValue(heap, l, AddToLeft(heap[l], heap[r]))
  /\ arith' = arith + 1
  /\ call' = Called("AddToLeft", l, r, 0, 0)
  /\ UNCHANGED <<result, vecVars, mainVars>>

CallIncrement(x) ==
  /\ Ready
  /\ arith < MaxArith
  /\ heap' = SetValue(heap, x, Increment(heap[x]))
  /\ arith' = arith + 1
  /\ call' = Called("Increment", x, 0, 0, 0)
  /\ UNCHANGED <<result, vecVars, mainVars>>

Next ==
  \/ CallNew
  \/ CallNewOther
  \/ \E x \in Live : CallDelete(x)
  \/ \E x \in IntInstances : CallClone(x)
  \/ \E x \in IntInstances, s \in OnDiskVals, len \in Lengths, pad \in PadBytes :
       CallUnMarshall(x, s, len, pad)
  \/ \E l \in IntInstances, r \in Live : CallEqual(l, r)
  \/ \E l \in IntInstances, r \in Live : CallLessThan(l, r)
  \/ \E l \in IntInstances, r \in Live : CallNotEqual(l, r)
  \/ \E l \in IntInstances, r \in Live : CallLessThanOrEqual(l, r)
  \/ \E l \in IntInstances, r \in Live : CallGreaterThan(l, r)
  \/ \E l \in IntInstances, r \in Live : CallGreaterThanOrEqual(l, r)
  \/ \E l \in IntInstances, r \in Live : CallAddToLeft(l, r)
  \/ \E x \in IntInstances : CallIncrement(x)
  \/ Return

Spec == Init /\ [][Next]_vars

(* Two constructed integer instances, decoded from signed values and       *)
(* compared.                                                               *)
InitSigned ==
  /\ heap = Allocate(Allocate(EmptyHeap, 1, GiftedIntegerType),
                     2, GiftedIntegerType)
  /\ result \in BOOLEAN
  /\ call = NoCall
  /\ arith = 0
  /\ IdleVec
  /\ IdleMain

NextSigned ==
  \/ \E x \in IntInstances, s \in SignedVals, pad \in PadBytes :
       CallUnMarshall(x, s, getLength, pad)
  \/ \E l \in IntInstances, r \in Live : CallEqual(l, r)
  \/ \E l \in IntInstances, r \in Live : CallLessThan(l, r)
  \/ Return

SpecSigned == InitSigned /\ [][NextSigned]_vars

----------------------------------------------------------------------------
(* Properties of the member calls.                                         *)

Comparisons == {"Equal", "LessThan", "NotEqual", "LessThanOrEqual",
                "GreaterThan", "GreaterThanOrEqual"}

(* The call looked at has two integer operands.                            *)
SameType ==
  /\ call.op \in Comparisons \cup {"AddToLeft"}
  /\ myType(heap[call.right]) = GiftedIntTypeId

(* The call looked at has a right operand of another variant.              *)
Mismatch ==
  /\ call.op \in Comparisons \cup {"AddToLeft"}
  /\ myType(heap[call.right]) # GiftedIntTypeId

ThisValue == heap[call.this].value
RightValue == heap[call.right].value
ThisBefore == call.before[call.this].value
RightBefore == call.before[call.right].value

(* 16-bit digit j (1 = least significant) of a 64-bit value.               *)
Limb(a, j) == a[2 * j - 1] + 256 * a[2 * j]

RECURSIVE LimbCarry(_, _, _)
LimbCarry(a, b, j) ==
  IF j = 1 THEN 0
  ELSE (Limb(a, j - 1) + Limb(b, j - 1) + LimbCarry(a, b, j - 1)) \div 65536

(* c = (a + b) mod 2^64, digit by digit in base 2^16.                      *)
IsSumMod2to64(c, a, b) ==
  \A j \in 1..4 : Limb(c, j) = (Limb(a, j) + Limb(b, j) + LimbCarry(a, b, j)) % 65536

(* The number held by a value below 2^24.                                  *)
IsSmall(a) == \A k \in 4..8 : a[k] = 0
SmallNum(a) == a[1] + 256 * a[2] + 65536 * a[3]

AllOnes == [k \in 1..8 |-> 255]

(* s mod 2^64 for a signed s: s itself when s >= 0, else 2^64 - 1 minus    *)
(* (-s - 1), which is the bytewise complement of -s - 1.                   *)
Unsigned64(s) ==
  IF s >= 0 THEN [k \in 1..8 |-> ByteOf(s, k - 1)]
  ELSE [k \in 1..8 |-> 255 - ByteOf((0 - s) - 1, k - 1)]

(* C2: with two integer operands the derived comparators agree with the    *)
(* primitives whatever "result" held before: NotEqual = not Equal,         *)
(* LessThanOrEqual = LessThan or Equal, GreaterThan = not LessThanOrEqual, *)
(* GreaterThanOrEqual = not LessThan; for 13 and 26 the six results are    *)
(* false, true, true, true, false, false.                                  *)
C2_DerivedComparatorsAgree ==
  SameType /\ call.op \in Comparisons =>
    /\ \A p, q \in BOOLEAN :
         LET eq == Equal(heap[call.this], heap[call.right], p)
             lt == LessThan(heap[call.this], heap[call.right], q)
         IN  /\ call.op = "NotEqual" => result = ~eq
             /\ call.op = "LessThanOrEqual" => result = (lt \/ eq)
             /\ call.op = "GreaterThan" => result = ~(lt \/ eq)
             /\ call.op = "GreaterThanOrEqual" => result = ~lt
    /\ (ThisValue = StorageBytes(13, 8) /\ RightValue = StorageBytes(26, 8)) =>
         /\ call.op = "Equal" => result = FALSE
         /\ call.op = "LessThan" => result = TRUE
         /\ call.op = "NotEqual" => result = TRUE
         /\ call.op = "LessThanOrEqual" => result = TRUE
         /\ call.op = "GreaterThan" => result = FALSE
         /\ call.op = "GreaterThanOrEqual" => result = FALSE

C2_Witness ==
  /\ call.op = "GreaterThan"
  /\ SameType
  /\ ThisValue = StorageBytes(13, 8)
  /\ RightValue = StorageBytes(26, 8)
  /\ call.prior = TRUE
  /\ result = FALSE

(* C3: Clone returns a new instance of the integer type holding the        *)
(* default value 0 whatever value its source holds, and changes no         *)
(* existing instance.                                                      *)
C3_CloneIsDefaultFactory ==
  call.op = "Clone" =>
    /\ call.ret \notin DOMAIN call.before
    /\ call.ret \in Live
    /\ call.ret # call.this
    /\ myType(heap[call.ret]) = call.before[call.this].type
    /\ myType(heap[call.ret]) = GiftedIntTypeId
    /\ myType(heap[call.ret]) # GiftedUnknownTypeId
    /\ heap[call.ret].value = Zero
    /\ \A x \in DOMAIN call.before : x \in Live /\ heap[x] = call.before[x]

C3_Witness ==
  /\ call.op = "Clone"
  /\ arith > 0
  /\ ThisBefore # Zero
  /\ heap[call.ret].value = Zero

(* C4 as claimed: with a right operand of another type every comparison    *)
(* leaves "result" as it was and AddToLeft leaves the left value as it was.*)
C4_MismatchLeavesOutput ==
  Mismatch =>
    /\ call.op \in Comparisons => result = call.prior
    /\ call.op = "AddToLeft" => ThisValue = ThisBefore

(* C4 amended: with a right operand of another type Equal, LessThan and    *)
(* LessThanOrEqual leave "result" as it was, NotEqual, GreaterThan and     *)
(* GreaterThanOrEqual leave it negated, and AddToLeft leaves the left      *)
(* value as it was.                                                        *)
C4_MismatchAmended ==
  Mismatch =>
    /\ call.op \in {"Equal", "LessThan", "LessThanOrEqual"} =>
         result = call.prior
    /\ call.op \in {"NotEqual", "GreaterThan", "GreaterThanOrEqual"} =>
         result = ~call.prior
    /\ call.op = "AddToLeft" => heap = call.before
    /\ call.raised = "None"

C4_Witness ==
  /\ Mismatch
  /\ call.op = "GreaterThan"
  /\ call.prior = FALSE
  /\ result = TRUE

(* C5: UnMarshall with a length other than getLength() raises              *)
(* LengthMismatch and does not take the value from the buffer.             *)
C5_LengthMismatchSurfaced ==
  (call.op = "UnMarshall" /\ call.length # getLength) =>
    /\ call.raised = "LengthMismatch"
    /\ ThisValue = ThisBefore

C8_SignLost ==
  /\ (call.op = "UnMarshall" /\ call.length = getLength) =>
       \A s \in SignedVals :
         call.payload = StorageBytes(s, 8) => ThisValue = Unsigned64(s)
  /\ (call.op = "LessThan" /\ SameType) =>
       \A s, t \in SignedVals :
         (s < 0 /\ t >= 0) =>
           /\ (ThisValue = StorageBytes(s, 8) /\ RightValue = StorageBytes(t, 8))
                => result = FALSE
           /\ (ThisValue = StorageBytes(t, 8) /\ RightValue = StorageBytes(s, 8))
                => result = TRUE
  /\ (call.op = "Equal" /\ SameType) =>
       (ThisValue = RightValue => result = TRUE)

C8_Witness ==
  /\ call.op = "LessThan"
  /\ ThisValue = StorageBytes(1, 8)
  /\ RightValue = StorageBytes(-1, 8)
  /\ call.prior = FALSE
  /\ result = TRUE

----------------------------------------------------------------------------
(* GiftedBaseType::VectorizedEqual, one action per step of its body.       *)

(* reinterpret_cast<char*>(arr) for an array of signed integers of w bytes.*)
ArrayBytes(arr, w) ==
  [k \in 1..(w * Len(arr)) |-> ByteOf(arr[((k - 1) \div w) + 1], (k - 1) % w)]

(* The byte offset of element k when every element is taken to be 8 bytes. *)
SliceOffsetOfFixedWidth(k, w) == k * 8

(* vectorDataElements + (i * elementLength)                                *)
SliceOffset(k, w) == k * w

(* A loop test that runs one element too far.                              *)
LoopContinuesInclusive(k, n) == k <= n

(* i < vectorLength                                                        *)
LoopContinues(k, n) == k < n

(* A clean-up that forgets the literal instance.                           *)
DeleteScratchLeaksLiteral(h, c, l) == Release(h, {c})

(* delete _callerTypeInstance; delete _literalInstance;                    *)
DeleteScratch(h, c, l) == Release(h, {c, l})

(* Entry: the two Clone calls and the decoding of the literal. res is the  *)
(* content of the caller's result array at the call.                       *)
VectorizedEqualEnter(x, w, vec, n, lit, vp, lp, res) ==
  /\ Ready
  /\ vpc = "idle"
  /\ LET c == NewId(heap)
         h1 == Allocate(heap, c, Clone(heap[x]))
         l == NewId(h1)
         h2 == Allocate(h1, l, Clone(heap[x]))
     IN  /\ callerTypeInstance' = c
         /\ literalInstance' = l
         /\ heap' = SetValue(h2, l, UnMarshall(lit, 0, w, lp))
  /\ clones' = 2
  /\ self' = x
  /\ elementLength' = w
  /\ vectorDataElements' = vec
  /\ vectorLength' = n
  /\ rawLiteralData' = lit
  /\ vecPad' = vp
  /\ litPad' = lp
  /\ resultArray' = res
  /\ written' = {}
  /\ i' = 0
  /\ vpc' = "loop"
  /\ call' = Called("VectorizedEqual", x, 0, w, 0)

(* One iteration: decode element i into the scratch instance, compare it   *)
(* with the literal instance into result[i], i++.                          *)
VectorizedEqualStep ==
  /\ vpc = "loop"
  /\ LoopContinues(i, vectorLength)
  /\ LET h1 == SetValue(heap, callerTypeInstance,
                        UnMarshall(vectorDataElements,
                                   SliceOffset(i, elementLength),
                                   elementLength, vecPad))
     IN  /\ heap' = h1
         /\ resultArray' =
              [resultArray EXCEPT
                 ![i + 1] = Equal(h1[callerTypeInstance], h1[literalInstance],
                                  resultArray[i + 1])]
  /\ written' = written \cup {i}
  /\ i' = i + 1
  /\ UNCHANGED <<result, call, arith, vpc, self, elementLength,
                 vectorDataElements, vectorLength, rawLiteralData, vecPad,
                 litPad, callerTypeInstance, literalInstance, clones,
                 mainVars>>

(* The loop is over: both scratch instances are deleted.                   *)
VectorizedEqualExit ==
  /\ vpc = "loop"
  /\ ~LoopContinues(i, vectorLength)
  /\ heap' = DeleteScratch(heap, callerTypeInstance, literalInstance)
  /\ vpc' = "done"
  /\ UNCHANGED <<result, call, arith, self, elementLength,
                 vectorDataElements, vectorLength, rawLiteralData, vecPad,
                 litPad, resultArray, written, i, callerTypeInstance,
                 literalInstance, clones, mainVars>>

(* The result arrays and vectors tried: the array has one slot more than   *)
(* the longest vector.                                                     *)
ResultArrays == {[k \in 1..(MaxN + 1) |-> b] : b \in BOOLEAN}

Vectors(n, w) == {ArrayBytes(es, w) : es \in [1..n -> VecVals]}

(* A client that owns one integer instance, decodes values into it and     *)
(* calls VectorizedEqual on it.                                            *)
InitVec ==
  /\ heap = Allocate(EmptyHeap, 1, GiftedIntegerType)
  /\ result \in BOOLEAN
  /\ call = NoCall
  /\ arith = 0
  /\ IdleVec
  /\ IdleMain

(* The calls of VectorizedEqual tried.                                     *)
CallVectorizedEqual ==
  /\ Ready
  /\ vpc = "idle"
  /\ \E x \in IntInstances, w \in Widths, n \in 0..MaxN, l \in VecVals,
        vp \in PadBytes, lp \in PadBytes, res \in ResultArrays :
       \E vec \in Vectors(n, w) :
         VectorizedEqualEnter(x, w, vec, n, StorageBytes(l, w), vp, lp, res)
  /\ UNCHANGED <<result, arith, mainVars>>

NextVec ==
  \/ /\ Ready
     /\ \E x \in IntInstances, s \in OnDiskVals, pad \in PadBytes :
          CallUnMarshall(x, s, getLength, pad)
  \/ Return
  \/ CallVectorizedEqual
  \/ VectorizedEqualStep
  \/ VectorizedEqualExit

SpecVec == InitVec /\ [][NextVec]_vars

(* C1: when VectorizedEqual is over, result[k] holds whether the value     *)
(* UnMarshall decodes at byte k * elementLength of the vector is Equal to  *)
(* the value UnMarshall decodes from the literal buffer, for every k below *)
(* vectorLength, and exactly these slots were assigned.                    *)
C1_VectorizedEqualCorrect ==
  vpc = "done" =>
    /\ written = 0..(vectorLength - 1)
    /\ Cardinality(written) = vectorLength
    /\ \A k \in 0..(vectorLength - 1), p \in BOOLEAN :
         LET elem == [type |-> GiftedIntTypeId,
                      value |-> UnMarshall(vectorDataElements, k * elementLength,
                                           elementLength, vecPad)]
             lit == [type |-> GiftedIntTypeId,
                     value |-> UnMarshall(rawLiteralData, 0, elementLength,
                                          litPad)]
         IN  resultArray[k + 1] = Equal(elem, lit, p)

C1_Witness ==
  /\ vpc = "done"
  /\ vectorLength = 2
  /\ elementLength = 4
  /\ resultArray[1] = TRUE
  /\ resultArray[2] = FALSE
  /\ written = {0, 1}

(* C9: a call of VectorizedEqual makes two Clone calls whatever the element*)
(* count, both scratch instances are live and new during the loop, and     *)
(* when the call is over the live instances are those live before it.      *)
C9_ScratchInstancesReleased ==
  /\ vpc = "loop" =>
       /\ clones = 2
       /\ callerTypeInstance # literalInstance
       /\ {callerTypeInstance, literalInstance} \cap DOMAIN call.before = {}
       /\ Live = DOMAIN call.before \cup {callerTypeInstance, literalInstance}
  /\ vpc = "done" =>
       /\ clones = 2
       /\ Live = DOMAIN call.before
       /\ Cardinality(Live) = Cardinality(DOMAIN call.before)

C9_Witness ==
  /\ vpc = "done"
  /\ vectorLength = 2
  /\ clones = 2
  /\ Live = {1}

(* C10: no step of VectorizedEqual changes an instance that was live       *)
(* before the call, the vector or literal buffer, or a result slot other   *)
(* than slot i with i below vectorLength; with vectorLength 0 no slot is   *)
(* assigned.                                                               *)
C10_FrameOfVectorizedEqual ==
  [][vpc = "loop" =>
       /\ \A x \in DOMAIN call.before : x \in DOMAIN heap' /\ heap'[x] = call.before[x]
       /\ UNCHANGED <<vectorDataElements, rawLiteralData, elementLength,
                      vectorLength, vecPad, litPad>>
       /\ Len(resultArray') = Len(resultArray)
       /\ \A k \in 1..Len(resultArray) :
            (k - 1 # i \/ k - 1 >= vectorLength) =>
              resultArray'[k] = resultArray[k]
       /\ written' \subseteq 0..(vectorLength - 1)
       /\ vectorLength = 0 => written' = {}]_vars

C10_Witness ==
  /\ vpc = "done"
  /\ vectorLength = 1
  /\ written = {0}
  /\ heap[self].value = StorageBytes(13, 8)
  /\ resultArray[1] = FALSE
  /\ resultArray[2] = TRUE

----------------------------------------------------------------------------
(* The driver main, one action per statement.                              *)

VectorCardinality == 1024

(* The objects main owns: anAttr, anotherAttr and the local _anInstance.   *)
AnAttr == 1
AnotherAttr == 2
AnInstance == 3

(* "bool result;" and "bool _resultArray[...]" are not initialised.        *)
InitMain ==
  /\ heap = EmptyHeap
  /\ result \in BOOLEAN
  /\ call = NoCall
  /\ arith = 0
  /\ vpc = "idle" /\ self = 0 /\ elementLength = 0
  /\ vectorDataElements = << >> /\ vectorLength = 0 /\ rawLiteralData = << >>
  /\ vecPad = 0 /\ litPad = 0
  /\ resultArray \in {[k \in 1..VectorCardinality |-> b] : b \in BOOLEAN}
  /\ written = {} /\ i = 0 /\ callerTypeInstance = 0 /\ literalInstance = 0
  /\ clones = 0
  /\ pc = "L217" /\ onDisk = 0 /\ onDiskA = << >> /\ onDiskB = << >>
  /\ printed = << >>

(* *_storagePtr: the bytes of _onDisk as it is now.                        *)
StoragePtr == StorageBytes(onDisk, 8)

MainNewAnAttr ==
  /\ pc = "L217"
  /\ heap' = Allocate(heap, AnAttr, GiftedIntegerType)
  /\ pc' = "L220"
  /\ UNCHANGED <<result, call, arith, vecVars, onDisk, onDiskA, onDiskB, printed>>

MainSetOnDisk ==
  /\ pc = "L220"
  /\ onDisk' = 13
  /\ pc' = "L222"
  /\ UNCHANGED <<heap, result, call, arith, vecVars, onDiskA, onDiskB, printed>>

MainUnMarshallAnAttr ==
  /\ pc = "L222"
  /\ \E pad \in PadBytes :
       heap' = SetValue(heap, AnAttr, UnMarshall(StoragePtr, 0, 8, pad))
  /\ pc' = "L225"
  /\ UNCHANGED <<result, call, arith, vecVars, onDisk, onDiskA, onDiskB, printed>>

MainDoubleOnDisk ==
  /\ pc = "L225"
  /\ onDisk' = onDisk * 2
  /\ pc' = "L226"
  /\ UNCHANGED <<heap, result, call, arith, vecVars, onDiskA, onDiskB, printed>>

MainNewAnotherAttr ==
  /\ pc = "L226"
  /\ heap' = Allocate(heap, AnotherAttr, GiftedIntegerType)
  /\ pc' = "L227"
  /\ UNCHANGED <<result, call, arith, vecVars, onDisk, onDiskA, onDiskB, printed>>

MainUnMarshallAnotherAttr ==
  /\ pc = "L227"
  /\ \E pad \in PadBytes :
       heap' = SetValue(heap, AnotherAttr, UnMarshall(StoragePtr, 0, 8, pad))
  /\ pc' = "L230"
  /\ UNCHANGED <<result, call, arith, vecVars, onDisk, onDiskA, onDiskB, printed>>

MainPrintBoth ==
  /\ pc = "L230"
  /\ printed' = Append(printed, <<"Create two variables: ",
                                  heap[AnAttr].value, heap[AnotherAttr].value>>)
  /\ pc' = "L234"
  /\ UNCHANGED <<heap, result, call, arith, vecVars, onDisk, onDiskA, onDiskB>>

(* A comparison of anAttr with anotherAttr into result, then its print.    *)
MainCompare(at, next, label, res) ==
  /\ pc = at
  /\ result' = res
  /\ printed' = Append(printed, <<label, res>>)
  /\ pc' = next
  /\ UNCHANGED <<heap, call, arith, vecVars, onDisk, onDiskA, onDiskB>>

MainEqual ==
  MainCompare("L234", "L237", "= : ",
              Equal(heap[AnAttr], heap[AnotherAttr], result))

MainLessThan ==
  MainCompare("L237", "L240", "; < : ",
              LessThan(heap[AnAttr], heap[AnotherAttr], result))

MainNotEqual ==
  MainCompare("L240", "L243", "; != : ",
              NotEqual(heap[AnAttr], heap[AnotherAttr], result))

MainLessThanOrEqual ==
  MainCompare("L243", "L246", "; <= : ",
              LessThanOrEqual(heap[AnAttr], heap[AnotherAttr], result))

MainGreaterThan ==
  MainCompare("L246", "L249", "; > : ",
              GreaterThan(heap[AnAttr], heap[AnotherAttr], result))

MainGreaterThanOrEqual ==
  MainCompare("L249", "L253", "; >= : ",
              GreaterThanOrEqual(heap[AnAttr], heap[AnotherAttr], result))

MainAddToLeft ==
  /\ pc = "L253"
  /\ heap' = SetValue(heap, AnAttr, AddToLeft(heap[AnAttr], heap[AnotherAttr]))
  /\ pc' = "L256"
  /\ UNCHANGED <<result, call, arith, vecVars, onDisk, onDiskA, onDiskB, printed>>

MainPrintSum ==
  /\ pc = "L256"
  /\ printed' = Append(printed, <<"Sum of the two variables is: ",
                                  heap[AnAttr].value>>)
  /\ pc' = "L265"
  /\ UNCHANGED <<heap, result, call, arith, vecVars, onDisk, onDiskA, onDiskB>>

(* The loop that creates the disk representations, as a whole.             *)
MainFillArrays ==
  /\ pc = "L265"
  /\ onDiskA' = [k \in 1..VectorCardinality |-> k - 1]
  /\ onDiskB' = [k \in 1..VectorCardinality |->
                   IF (k - 1) % 2 # 0 THEN k - 1 ELSE (k - 1) * 2]
  /\ pc' = "L270"
  /\ UNCHANGED <<heap, result, call, arith, vecVars, onDisk, printed>>

MainNewAnInstance ==
  /\ pc = "L270"
  /\ heap' = Allocate(heap, AnInstance, GiftedIntegerType)
  /\ pc' = "L272"
  /\ UNCHANGED <<result, call, arith, vecVars, onDisk, onDiskA, onDiskB, printed>>

(* _anInstance.VectorizedEqual(getLength(), _onDiskA, 1024, _storagePtr,   *)
(* _resultArray): the call as far as the loop.                             *)
MainVectorizedEqual ==
  /\ pc = "L272"
  /\ \E vp \in PadBytes, lp \in PadBytes :
       VectorizedEqualEnter(AnInstance, getLength, ArrayBytes(onDiskA, 8),
                            VectorCardinality, StoragePtr, vp, lp, resultArray)
  /\ pc' = "L278"
  /\ UNCHANGED <<result, arith, onDisk, onDiskA, onDiskB, printed>>

(* The loop that prints _resultArray, as a whole.                          *)
MainPrintResultArray ==
  /\ pc = "L278"
  /\ vpc = "done"
  /\ printed' = Append(printed, resultArray)
  /\ pc' = "L283"
  /\ UNCHANGED <<heap, result, call, arith, vecVars, onDisk, onDiskA, onDiskB>>

(* delete anotherAttr; return 0: _anInstance and *anAttr are destroyed.    *)
MainExit ==
  /\ pc = "L283"
  /\ heap' = Release(heap, {AnotherAttr, AnInstance, AnAttr})
  /\ pc' = "exit"
  /\ UNCHANGED <<result, call, arith, vecVars, onDisk, onDiskA, onDiskB, printed>>

NextMain ==
  \/ MainNewAnAttr
  \/ MainSetOnDisk
  \/ MainUnMarshallAnAttr
  \/ MainDoubleOnDisk
  \/ MainNewAnotherAttr
  \/ MainUnMarshallAnotherAttr
  \/ MainPrintBoth
  \/ MainEqual
  \/ MainLessThan
  \/ MainNotEqual
  \/ MainLessThanOrEqual
  \/ MainGreaterThan
  \/ MainGreaterThanOrEqual
  \/ MainAddToLeft
  \/ MainPrintSum
  \/ MainFillArrays
  \/ MainNewAnInstance
  \/ MainVectorizedEqual
  \/ VectorizedEqualStep
  \/ VectorizedEqualExit
  \/ MainPrintResultArray
  \/ MainExit

SpecMain == InitMain /\ [][NextMain]_vars

(* C6: main calls VectorizedEqual over the vector holding i at odd i and   *)
(* 2 * i at even i, with the literal buffer holding 13, and the result     *)
(* array it prints is true at index 13 only.                               *)
C6_DriverScenarioB ==
  /\ pc = "L278" =>
       /\ vectorLength = VectorCardinality
       /\ vectorDataElements = ArrayBytes(onDiskB, 8)
       /\ rawLiteralData = StorageBytes(13, 8)
  /\ pc = "L283" =>
       \A k \in 0..(VectorCardinality - 1) :
         printed[Len(printed)][k + 1] = (k = 13)

(* What main does instead: the vector is _onDiskA (element i holds i), the *)
(* literal buffer is _onDisk, which holds 26 by then, and the array        *)
(* printed is true at index 26 only.                                       *)
DriverComparesOnDiskAWith26 ==
  /\ pc = "L278" =>
       /\ vectorLength = VectorCardinality
       /\ vectorDataElements = ArrayBytes(onDiskA, 8)
       /\ rawLiteralData = StorageBytes(26, 8)
  /\ pc = "L283" =>
       \A k \in 0..(VectorCardinality - 1) :
         printed[Len(printed)][k + 1] = (k = 26)

====
